---- MODULE Spec2Model ----
(***************************************************************************)
(* Model of the Moqui definition validators (scripts/validate_entity.py,    *)
(* scripts/validate_service.py), of the formatter (format_moqui_xml.py) and *)
(* of the service generator (generate_service.py).                          *)
(* A parsed XML tree is a record; an XML                                    *)
(* attribute is an optional string; a string is a sequence of one-character *)
(* strings, so that lower(), endswith(), isalnum() and friends are computed *)
(* and not assumed.                                                         *)
(***************************************************************************)
EXTENDS Integers, Sequences, FiniteSets, TLC

VARIABLES
    xml_file,      \* the file handed to check_*_patterns: [parse_ok, root]
    issues,        \* issues list returned by the last check
    suggestions,   \* suggestions list returned by the last check
    pc,            \* position of the single-check process
    fs,            \* directory content in os.walk order: sequence of files
    dialect,       \* which script runs: "entity" (validate_entity.py) or "service"
    bpc,           \* position of the validator process (main)
    todo,          \* files of entity_files / service_files not yet validated
    all_valid,     \* validate_directory's accumulator
    verdicts,      \* per-file outcomes so far: sequence of [file, ok]
    checked,       \* files for which check_*_patterns has been called
    success,       \* main's success value: None until set, then Some(boolean)
    argv,          \* command line of the running script
    disk,          \* the formatter's file and its backup: [file, backup]
    fpc,           \* position of format_xml_file
    original_content,   \* format_xml_file's local: the content read
    formatted_content,  \* format_xml_file's local: the content to write
    calls,         \* calls of format_xml_file so far
    given          \* the content of the file before the first call

vars == <<xml_file, issues, suggestions, pc, fs, dialect, bpc, todo,
          all_valid, verdicts, checked, success, argv,
          disk, fpc, original_content, formatted_content, calls, given>>

\* the variables of format_xml_file
format_vars == <<disk, fpc, original_content, formatted_content, calls, given>>

\* no formatter running
InitIdleFormat ==
    /\ disk = <<>> /\ fpc = "off" /\ original_content = <<>>
    /\ formatted_content = <<>> /\ calls = 0 /\ given = <<>>

----------------------------------------------------------------------------
(* Strings                                                                  *)

UpperChars == <<"A","B","C","D","E","F","G","H","I","J","K","L","M",
                "N","O","P","Q","R","S","T","U","V","W","X","Y","Z">>
LowerChars == <<"a","b","c","d","e","f","g","h","i","j","k","l","m",
                "n","o","p","q","r","s","t","u","v","w","x","y","z">>
DigitChars == <<"0","1","2","3","4","5","6","7","8","9">>

Range(s) == {s[i] : i \in DOMAIN s}

UpperSet == Range(UpperChars)
LowerSet == Range(LowerChars)
DigitSet == Range(DigitChars)
WhiteSet == {" ", "\n", "\t"}

\* str.lower() on one character
LowerChar(c) ==
    IF c \in UpperSet
    THEN LowerChars[CHOOSE i \in DOMAIN UpperChars : UpperChars[i] = c]
    ELSE c

\* str.lower()
Lower(s) == [i \in DOMAIN s |-> LowerChar(s[i])]

\* str.endswith(suffix)
EndsWith(s, suffix) ==
    /\ Len(s) >= Len(suffix)
    /\ SubSeq(s, Len(s) - Len(suffix) + 1, Len(s)) = suffix

\* sub in s
Contains(s, sub) ==
    \E i \in 1..(Len(s) - Len(sub) + 1) : SubSeq(s, i, i + Len(sub) - 1) = sub

\* s.replace(c, '')
Remove(s, c) == SelectSeq(s, LAMBDA x : x # c)

\* str.isalnum(): non-empty and every character a letter or a digit
IsAlnum(s) ==
    /\ s # <<>>
    /\ \A i \in DOMAIN s : s[i] \in UpperSet \cup LowerSet \cup DigitSet

\* str.islower(): at least one cased character and no uppercase one
IsLower(s) ==
    /\ \E i \in DOMAIN s : s[i] \in LowerSet
    /\ \A i \in DOMAIN s : s[i] \notin UpperSet

\* str.isupper() on a one-character string
IsUpperChar(c) == c \in UpperSet

\* str.strip()
RECURSIVE LStrip(_)
LStrip(s) == IF s # <<>> /\ Head(s) \in WhiteSet THEN LStrip(Tail(s)) ELSE s
RECURSIVE RStrip(_)
RStrip(s) ==
    IF s # <<>> /\ s[Len(s)] \in WhiteSet THEN RStrip(SubSeq(s, 1, Len(s) - 1)) ELSE s
Strip(s) == RStrip(LStrip(s))

----------------------------------------------------------------------------
(* Optional values: element.get(name) is None or a string                   *)

None == <<>>
Some(s) == <<s>>
\* element.get(name, default)
Get(a, default) == IF a = None THEN default ELSE a[1]
\* Python truthiness of element.get(name): present and not the empty string
Truthy(a) == a # None /\ a[1] # <<>>

\* Flattening of a loop that appends to a list
RECURSIVE FlatMap(_, _)
FlatMap(Op(_), s) == IF s = <<>> THEN <<>> ELSE Op(Head(s)) \o FlatMap(Op, Tail(s))

\* element.findall(tag): the direct children with that tag, in document order
FindAll(children, tag) == SelectSeq(children, LAMBDA c : c.tag = tag)

\* One finding: the message template and the values interpolated into it
Finding(rule, args) == [rule |-> rule, args |-> args]

----------------------------------------------------------------------------
(* String literals of the two scripts and of the inputs                     *)

S_true == <<"t","r","u","e">>
S_false == <<"f","a","l","s","e">>
S_Id == <<"I","d">>
S_Date == <<"D","a","t","e">>
S_id == <<"i","d">>
S_date == <<"d","a","t","e">>
S_one == <<"o","n","e">>
S_many == <<"m","a","n","y">>
S_one_nofk == <<"o","n","e","-","n","o","f","k">>
S_unnamed_entity == <<"u","n","n","a","m","e","d"," ","e","n","t","i","t","y">>
S_no_package == <<"n","o"," ","p","a","c","k","a","g","e">>
S_unnamed_service == <<"u","n","n","a","m","e","d"," ","s","e","r","v","i","c","e">>

ENTITY_XSD == "http://moqui.org/xsd/entity-definition-3.xsd"
SERVICE_XSD == "http://moqui.org/xsd/service-definition-3.xsd"

VALID_FIELD_TYPES ==
    { S_id,
      <<"i","d","-","l","o","n","g">>,
      <<"t","e","x","t","-","s","h","o","r","t">>,
      <<"t","e","x","t","-","m","e","d","i","u","m">>,
      <<"t","e","x","t","-","l","o","n","g">>,
      <<"t","e","x","t","-","v","e","r","y","-","l","o","n","g">>,
      <<"n","u","m","b","e","r","-","i","n","t","e","g","e","r">>,
      <<"n","u","m","b","e","r","-","f","l","o","a","t">>,
      <<"n","u","m","b","e","r","-","d","e","c","i","m","a","l">>,
      <<"c","u","r","r","e","n","c","y","-","a","m","o","u","n","t">>,
      S_date,
      <<"t","i","m","e">>,
      <<"d","a","t","e","-","t","i","m","e">>,
      <<"t","i","m","e","s","t","a","m","p">>,
      <<"b","o","o","l","e","a","n">>,
      <<"t","e","x","t","-","i","n","d","i","c","a","t","o","r">> }

----------------------------------------------------------------------------
(* validate_entity.py: check_entity_patterns                                *)

\* expected_pk_name as it would be without lower()
expected_pk_name_as_is(entity_name) == entity_name \o S_Id

\* expected_pk_name = f"{entity_name.lower()}Id"
expected_pk_name(entity_name) == Lower(entity_name) \o S_Id

\* is_pk = field.get('is-pk') == 'true'
is_pk(field) == field.is_pk = Some(S_true)

\* FieldIssues as it would be without the "continue" after the missing name
FieldIssuesNoContinue(entity_name, field) ==
    (IF ~Truthy(field.name)
     THEN << Finding("field_missing_name", <<entity_name>>) >> ELSE <<>>)
 \o (IF ~Truthy(field.type)
     THEN << Finding("field_missing_type", <<entity_name, Get(field.name, <<>>)>>) >>
     ELSE <<>>)

\* The issues one iteration of "for field in fields" appends
FieldIssues(entity_name, field) ==
    IF ~Truthy(field.name)
    THEN << Finding("field_missing_name", <<entity_name>>) >>
    ELSE IF ~Truthy(field.type)
         THEN << Finding("field_missing_type", <<entity_name, field.name[1]>>) >>
         ELSE <<>>

\* FieldSuggestions as it would be if the type test read field_name for field_type
FieldSuggestionsNameForType(entity_name, field) ==
    IF ~Truthy(field.name)
    THEN <<>>
    ELSE LET field_name == field.name[1]
             field_type == field.type
         IN  (IF Truthy(field_type) /\ field_name \notin VALID_FIELD_TYPES
              THEN << Finding("unknown_type", <<entity_name, field_name, field_type[1]>>) >>
              ELSE <<>>)
          \o (IF is_pk(field) /\ field_name # expected_pk_name(entity_name)
              THEN << Finding("pk_name",
                              <<entity_name, field_name, expected_pk_name(entity_name)>>) >>
              ELSE <<>>)
          \o (IF EndsWith(field_name, S_Id) /\ field_type # Some(S_id)
              THEN << Finding("id_suffix", <<entity_name, field_name>>) >>
              ELSE <<>>)
          \o (IF EndsWith(field_name, S_Date) /\ Truthy(field_type)
                    /\ ~Contains(field_type[1], S_date)
              THEN << Finding("date_suffix", <<entity_name, field_name>>) >>
              ELSE <<>>)

\* FieldSuggestions as it would be if the "Date" test did not ask for a type
FieldSuggestionsDateAnyType(entity_name, field) ==
    IF ~Truthy(field.name)
    THEN <<>>
    ELSE LET field_name == field.name[1]
             field_type == field.type
         IN  (IF Truthy(field_type) /\ field_type[1] \notin VALID_FIELD_TYPES
              THEN << Finding("unknown_type", <<entity_name, field_name, field_type[1]>>) >>
              ELSE <<>>)
          \o (IF is_pk(field) /\ field_name # expected_pk_name(entity_name)
              THEN << Finding("pk_name",
                              <<entity_name, field_name, expected_pk_name(entity_name)>>) >>
              ELSE <<>>)
          \o (IF EndsWith(field_name, S_Id) /\ field_type # Some(S_id)
              THEN << Finding("id_suffix", <<entity_name, field_name>>) >>
              ELSE <<>>)
          \o (IF EndsWith(field_name, S_Date)
                    /\ (Truthy(field_type) => ~Contains(field_type[1], S_date))
              THEN << Finding("date_suffix", <<entity_name, field_name>>) >>
              ELSE <<>>)

\* The suggestions one iteration of "for field in fields" appends
FieldSuggestions(entity_name, field) ==
    IF ~Truthy(field.name)
    THEN <<>>
    ELSE LET field_name == field.name[1]
             field_type == field.type
         IN  (IF Truthy(field_type) /\ field_type[1] \notin VALID_FIELD_TYPES
              THEN << Finding("unknown_type", <<entity_name, field_name, field_type[1]>>) >>
              ELSE <<>>)
          \o (IF is_pk(field) /\ field_name # expected_pk_name(entity_name)
              THEN << Finding("pk_name",
                              <<entity_name, field_name, expected_pk_name(entity_name)>>) >>
              ELSE <<>>)
          \o (IF EndsWith(field_name, S_Id) /\ field_type # Some(S_id)
              THEN << Finding("id_suffix", <<entity_name, field_name>>) >>
              ELSE <<>>)
          \o (IF EndsWith(field_name, S_Date) /\ Truthy(field_type)
                    /\ ~Contains(field_type[1], S_date)
              THEN << Finding("date_suffix", <<entity_name, field_name>>) >>
              ELSE <<>>)

\* primary_keys as it would be if a field were recorded before its name is tested
primary_keys_flagged(fields) ==
    FlatMap(LAMBDA f : IF is_pk(f) THEN <<Get(f.name, <<>>)>> ELSE <<>>, fields)

\* primary_keys after the field loop: the names of the named is-pk fields
primary_keys(fields) ==
    FlatMap(LAMBDA f : IF Truthy(f.name) /\ is_pk(f) THEN <<f.name[1]>> ELSE <<>>, fields)

\* The issues one iteration of "for key_map in key_maps" appends
KeyMapIssues(entity_name, key_map) ==
    IF ~Truthy(key_map.field_name)
    THEN << Finding("keymap_missing_field_name", <<entity_name>>) >>
    ELSE <<>>

\* The issues one iteration of "for relationship in ..." appends
RelationshipIssues(entity_name, relationship) ==
    LET key_maps == FindAll(relationship.children, "key-map")
    IN  (IF ~Truthy(relationship.type)
         THEN << Finding("rel_missing_type", <<entity_name>>) >> ELSE <<>>)
     \o (IF ~Truthy(relationship.related)
         THEN << Finding("rel_missing_related", <<entity_name>>) >> ELSE <<>>)
     \o (IF key_maps = <<>>
         THEN << Finding("rel_missing_key_map", <<entity_name>>) >> ELSE <<>>)
     \o FlatMap(LAMBDA k : KeyMapIssues(entity_name, k), key_maps)

\* RelationshipSuggestions as it would be with "if" in place of "elif": the
\* type is tested against the list even when it is missing
RelationshipSuggestionsNoElif(entity_name, relationship) ==
    (IF Get(relationship.type, <<>>) \notin {S_one, S_many, S_one_nofk}
     THEN << Finding("rel_type", <<entity_name, Get(relationship.type, <<>>)>>) >>
     ELSE <<>>)
 \o (IF ~Truthy(relationship.short_alias)
     THEN << Finding("rel_short_alias", <<entity_name>>) >> ELSE <<>>)

\* The suggestions one iteration of "for relationship in ..." appends
RelationshipSuggestions(entity_name, relationship) ==
    (IF Truthy(relationship.type)
        /\ relationship.type[1] \notin {S_one, S_many, S_one_nofk}
     THEN << Finding("rel_type", <<entity_name, relationship.type[1]>>) >> ELSE <<>>)
 \o (IF ~Truthy(relationship.short_alias)
     THEN << Finding("rel_short_alias", <<entity_name>>) >> ELSE <<>>)

\* The issues one iteration of "for entity in root.findall('entity')" appends
EntityIssues(entity) ==
    LET entity_name == Get(entity.entity_name, S_unnamed_entity)
        fields == FindAll(entity.children, "field")
    IN  (IF ~Truthy(entity.entity_name)
         THEN << Finding("entity_missing_name", <<>>) >> ELSE <<>>)
     \o (IF ~Truthy(entity.package)
         THEN << Finding("entity_missing_package", <<entity_name>>) >> ELSE <<>>)
     \o (IF fields = <<>>
         THEN << Finding("no_fields", <<entity_name>>) >> ELSE <<>>)
     \o FlatMap(LAMBDA f : FieldIssues(entity_name, f), fields)
     \o (IF primary_keys(fields) = <<>>
         THEN << Finding("no_primary_key", <<entity_name>>) >> ELSE <<>>)
     \o FlatMap(LAMBDA r : RelationshipIssues(entity_name, r),
                FindAll(entity.children, "relationship"))

\* The suggestions one iteration of "for entity in root.findall('entity')" appends
EntitySuggestions(entity) ==
    LET entity_name == Get(entity.entity_name, S_unnamed_entity)
        fields == FindAll(entity.children, "field")
    IN  (IF entity_name # <<>> /\ ~IsAlnum(Remove(entity_name, "_"))
         THEN << Finding("entity_naming", <<entity_name>>) >> ELSE <<>>)
     \o FlatMap(LAMBDA f : FieldSuggestions(entity_name, f), fields)
     \o FlatMap(LAMBDA r : RelationshipSuggestions(entity_name, r),
                FindAll(entity.children, "relationship"))

\* "if root.tag != 'entities': issues.append(...)"; the loops below it still run
EntityRootIssues(root) ==
    IF root.tag # "entities" THEN << Finding("root_should_be_entities", <<>>) >> ELSE <<>>

EntityRootSuggestions(root) ==
    IF ENTITY_XSD \notin root.attrib
    THEN << Finding("add_entity_xsd", <<>>) >> ELSE <<>>

\* check_entity_patterns as it would be if a wrong root ended the check
check_entity_patterns_stop(file) ==
    IF ~file.parse_ok
    THEN [issues |-> << Finding("xml_parse_error", <<>>) >>, suggestions |-> <<>>]
    ELSE IF file.root.tag # "entities"
    THEN [issues |-> EntityRootIssues(file.root), suggestions |-> <<>>]
    ELSE [issues |-> FlatMap(EntityIssues, FindAll(file.root.children, "entity")),
          suggestions |-> EntityRootSuggestions(file.root)
                     \o FlatMap(EntitySuggestions, FindAll(file.root.children, "entity"))]

\* check_entity_patterns(xml_file) -> (issues, suggestions)
check_entity_patterns(file) ==
    IF ~file.parse_ok
    THEN [issues |-> << Finding("xml_parse_error", <<>>) >>, suggestions |-> <<>>]
    ELSE [issues |-> EntityRootIssues(file.root)
                     \o FlatMap(EntityIssues, FindAll(file.root.children, "entity")),
          suggestions |-> EntityRootSuggestions(file.root)
                     \o FlatMap(EntitySuggestions, FindAll(file.root.children, "entity"))]

----------------------------------------------------------------------------
(* validate_service.py: check_service_patterns                              *)

\* element.find(tag): the first direct child with that tag, or None
Find(children, tag) ==
    IF FindAll(children, tag) = <<>> THEN None ELSE Some(FindAll(children, tag)[1])

\* service_name as it would be if it tested "is not None" for truthiness
service_name_not_none(service) ==
    IF service.verb # None /\ service.noun # None
    THEN service.verb[1] \o <<"#">> \o service.noun[1]
    ELSE S_unnamed_service

\* service_name = f"{verb}#{noun}" if verb and noun else "unnamed service"
service_name(service) ==
    IF Truthy(service.verb) /\ Truthy(service.noun)
    THEN service.verb[1] \o <<"#">> \o service.noun[1]
    ELSE S_unnamed_service

\* NamingIssues as it would be if the verb test looked for an uppercase character
NamingIssuesAnyUpper(service) ==
    IF Truthy(service.verb) /\ Truthy(service.noun)
    THEN IF \E i \in DOMAIN service.verb[1] : service.verb[1][i] \in UpperSet
         THEN << Finding("verb_lowercase", <<service_name(service)>>) >> ELSE <<>>
    ELSE IF ~Truthy(service.verb) \/ ~Truthy(service.noun)
         THEN << Finding("missing_verb_or_noun", <<>>) >> ELSE <<>>

\* "# Check verb-noun naming": the issues of the if / elif
NamingIssues(service) ==
    IF Truthy(service.verb) /\ Truthy(service.noun)
    THEN IF ~IsLower(service.verb[1])
         THEN << Finding("verb_lowercase", <<service_name(service)>>) >> ELSE <<>>
    ELSE IF ~Truthy(service.verb) \/ ~Truthy(service.noun)
         THEN << Finding("missing_verb_or_noun", <<>>) >> ELSE <<>>

\* "# Check verb-noun naming": the suggestions of the if / elif
NamingSuggestions(service) ==
    IF Truthy(service.verb) /\ Truthy(service.noun)
       /\ ~IsUpperChar(service.noun[1][1])
    THEN << Finding("noun_pascal_case", <<service_name(service)>>) >> ELSE <<>>

\* "# Check authentication"
AuthSuggestions(service) ==
    IF Get(service.authenticate, S_true) = S_true /\ ~Truthy(service.require_all_roles)
    THEN << Finding("require_all_roles", <<service_name(service)>>) >> ELSE <<>>

\* "# Check parameters": one iteration of "for param in in_params.findall(...)"
ParameterIssues(name, param) ==
    IF ~Truthy(param.name)
    THEN << Finding("parameter_missing_name", <<name>>) >> ELSE <<>>

ParameterSuggestions(param) ==
    IF Truthy(param.name) /\ ~Truthy(param.type) /\ ~Truthy(param.required)
    THEN << Finding("parameter_type", <<param.name[1]>>) >> ELSE <<>>

\* the parameters the loop visits: those of the first in-parameters child
in_parameters(service) ==
    LET in_params == Find(service.children, "in-parameters")
    IN  IF in_params = None THEN <<>> ELSE FindAll(in_params[1].children, "parameter")

\* ActionsIssues as it would be without the strip() of the text
ActionsIssuesNoStrip(service) ==
    LET actions == Find(service.children, "actions")
    IN  IF actions = None
        THEN << Finding("missing_actions", <<service_name(service)>>) >>
        ELSE IF actions[1].text = None \/ actions[1].text[1] = <<>>
             THEN << Finding("empty_actions", <<service_name(service)>>) >>
             ELSE <<>>

\* "# Check actions"
ActionsIssues(service) ==
    LET actions == Find(service.children, "actions")
    IN  IF actions = None
        THEN << Finding("missing_actions", <<service_name(service)>>) >>
        ELSE IF actions[1].text = None \/ Strip(actions[1].text[1]) = <<>>
             THEN << Finding("empty_actions", <<service_name(service)>>) >>
             ELSE <<>>

\* The issues one iteration of "for service in root.findall('service')" appends
ServiceIssues(service) ==
       NamingIssues(service)
    \o FlatMap(LAMBDA p : ParameterIssues(service_name(service), p), in_parameters(service))
    \o ActionsIssues(service)

\* The suggestions one iteration of "for service in ..." appends
ServiceSuggestions(service) ==
       NamingSuggestions(service)
    \o AuthSuggestions(service)
    \o FlatMap(ParameterSuggestions, in_parameters(service))

ServiceRootIssues(root) ==
    IF root.tag # "services" THEN << Finding("root_should_be_services", <<>>) >> ELSE <<>>

ServiceRootSuggestions(root) ==
    IF SERVICE_XSD \notin root.attrib
    THEN << Finding("add_service_xsd", <<>>) >> ELSE <<>>

\* the list a loop builds when each iteration puts its findings in front
RECURSIVE FlatMapFront(_, _)
FlatMapFront(Op(_), s) ==
    IF s = <<>> THEN <<>> ELSE FlatMapFront(Op, Tail(s)) \o Op(Head(s))

\* check_service_patterns as it would be if each service's findings were
\* inserted at the front of the lists
check_service_patterns_front(file) ==
    IF ~file.parse_ok
    THEN [issues |-> << Finding("xml_parse_error", <<>>) >>, suggestions |-> <<>>]
    ELSE [issues |-> ServiceRootIssues(file.root)
                     \o FlatMapFront(ServiceIssues, FindAll(file.root.children, "service")),
          suggestions |-> ServiceRootSuggestions(file.root)
                     \o FlatMapFront(ServiceSuggestions,
                                     FindAll(file.root.children, "service"))]

\* check_service_patterns(xml_file) -> (issues, suggestions)
check_service_patterns(file) ==
    IF ~file.parse_ok
    THEN [issues |-> << Finding("xml_parse_error", <<>>) >>, suggestions |-> <<>>]
    ELSE [issues |-> ServiceRootIssues(file.root)
                     \o FlatMap(ServiceIssues, FindAll(file.root.children, "service")),
          suggestions |-> ServiceRootSuggestions(file.root)
                     \o FlatMap(ServiceSuggestions, FindAll(file.root.children, "service"))]

----------------------------------------------------------------------------
(* Bounded inputs                                                           *)

MaxFields == 2      \* field children of the entity of a deep document
MaxEntities == 2    \* children of the root of a wide document

\* all sequences over S of length at most n
SeqUpTo(S, n) == UNION {[1..k -> S] : k \in 0..n}

S_Order == <<"O","r","d","e","r">>
S_orderId == <<"o","r","d","e","r","I","d">>
S_dueDate == <<"d","u","e","D","a","t","e">>
S_widget_blob == <<"w","i","d","g","e","t","-","b","l","o","b">>
S_pkg == <<"s","h","o","p">>
S_empty == <<>>

FieldNode(name, type, pk) ==
    [tag |-> "field", name |-> name, type |-> type, is_pk |-> pk]
KeyMapNode(field_name) == [tag |-> "key-map", field_name |-> field_name]
RelationshipNode(type, related, short_alias, children) ==
    [tag |-> "relationship", type |-> type, related |-> related,
     short_alias |-> short_alias, children |-> children]
EntityNode(name, package, children) ==
    [tag |-> "entity", entity_name |-> name, package |-> package, children |-> children]
RootNode(tag, attrib, children) == [tag |-> tag, attrib |-> attrib, children |-> children]
Parsed(root) == [parse_ok |-> TRUE, root |-> root]
Unparseable == [parse_ok |-> FALSE, root |-> RootNode("", {}, <<>>)]

FieldNames == {None, Some(S_orderId), Some(S_id), Some(S_dueDate)}
FieldTypes == {None, Some(S_empty), Some(S_id), Some(S_date), Some(S_widget_blob)}
PkFlags == {None, Some(S_true)}
Fields == {FieldNode(n, t, k) : n \in FieldNames, t \in FieldTypes, k \in PkFlags}

GoodField == FieldNode(Some(S_orderId), Some(S_id), Some(S_true))
UnflaggedField == FieldNode(Some(S_id), Some(S_id), Some(S_false))
WrongTypePk == FieldNode(Some(S_orderId), Some(S_date), Some(S_true))
GoodRel == RelationshipNode(Some(S_one), Some(S_Order), Some(S_id),
                            <<KeyMapNode(Some(S_orderId))>>)
BadRel == RelationshipNode(Some(S_widget_blob), None, None, <<KeyMapNode(None)>>)

\* few shapes of entity, to be put side by side under any root
ShallowNodes ==
    {EntityNode(n, p, c) :
        n \in {None, Some(S_Order)}, p \in {None, Some(S_pkg)},
        c \in {<<>>, <<GoodField>>, <<UnflaggedField>>,
                <<GoodField, GoodRel>>, <<GoodField, BadRel>>}}
    \cup {[tag |-> "view-entity"]}

RootTags == {"entities", "services", "moqui-conf"}

S_order_item == <<"o","r","d","e","r","_","i","t","e","m">>
S_order_dash_item == <<"o","r","d","e","r","-","i","t","e","m">>
S_Order2 == <<"O","r","d","e","r","2">>
S_underscores == <<"_","_">>
\* entity names with and without characters outside letters, digits and "_"
EntityNames == {S_order_item, S_order_dash_item, S_Order2, S_underscores}

\* a deep document: one entity under a well-formed root
DeepDoc(e) == Parsed(RootNode("entities", {ENTITY_XSD}, <<e>>))

----------------------------------------------------------------------------
(* The pattern check of validate_entity.py on one file                      *)

InitIdleBatch ==
    /\ fs = <<>> /\ bpc = "off" /\ todo = <<>>
    /\ all_valid = TRUE /\ verdicts = <<>> /\ checked = <<>> /\ success = None
    /\ argv = [directory |-> FALSE, file |-> 0]
    /\ InitIdleFormat

InitEntity ==
    /\ \/ \E n \in {None, Some(S_empty), Some(S_Order)} :
             \E fs_ \in SeqUpTo(Fields, MaxFields) :
                xml_file = DeepDoc(EntityNode(n, Some(S_pkg), fs_))
       \/ \E t \in RootTags, a \in {{}, {ENTITY_XSD}} :
             \E c \in SeqUpTo(ShallowNodes, MaxEntities) :
                xml_file = Parsed(RootNode(t, a, c))
       \/ \E n \in EntityNames :
             \E c \in {<<GoodField>>, <<WrongTypePk>>,
                       <<FieldNode(Some(S_dueDate), None, None), WrongTypePk>>} :
                xml_file = DeepDoc(EntityNode(Some(n), Some(S_pkg), c))
       \/ xml_file = Unparseable
    /\ issues = <<>> /\ suggestions = <<>> /\ pc = "ready"
    /\ dialect = "entity"
    /\ InitIdleBatch

CheckEntity ==
    /\ pc = "ready" /\ dialect = "entity"
    /\ issues' = check_entity_patterns(xml_file).issues
    /\ suggestions' = check_entity_patterns(xml_file).suggestions
    /\ pc' = "done"
    /\ UNCHANGED format_vars
    /\ UNCHANGED <<xml_file, fs, dialect, bpc, todo, all_valid, verdicts, checked, success, argv>>


----------------------------------------------------------------------------
(* The pattern check of validate_service.py on one file                     *)

MaxParams == 1      \* parameter children of in-parameters
MaxServices == 2    \* children of the root of a wide service document

S_create == <<"c","r","e","a","t","e">>
S_Create == <<"C","r","e","a","t","e">>
S_123 == <<"1","2","3">>
S_order == <<"o","r","d","e","r">>
S_blank == <<"\n"," "," ">>
S_script == <<"\n"," ","x"," ">>
S_admin == <<"A","D","M","I","N">>

ParameterNode(name, type, required) ==
    [tag |-> "parameter", name |-> name, type |-> type, required |-> required]
InParametersNode(children) == [tag |-> "in-parameters", children |-> children]
ActionsNode(text, children) == [tag |-> "actions", text |-> text, children |-> children]
ServiceNode(verb, noun, authenticate, roles, children) ==
    [tag |-> "service", verb |-> verb, noun |-> noun, authenticate |-> authenticate,
     require_all_roles |-> roles, children |-> children]

Verbs == {None, Some(S_empty), Some(S_create), Some(S_Create), Some(S_123)}
Nouns == {None, Some(S_empty), Some(S_Order), Some(S_order)}
Parameters ==
    {ParameterNode(n, t, r) :
        n \in {None, Some(S_orderId)}, t \in {None, Some(S_id)}, r \in {None, Some(S_true)}}

\* the in-parameters part of a service's children
InParameterParts ==
    {<<>>} \cup {<<InParametersNode(ps)>> : ps \in SeqUpTo(Parameters, MaxParams)}

SetNode == [tag |-> "set"]
\* the actions part of a service's children
ActionsParts ==
    { <<>>,
      <<ActionsNode(None, <<>>)>>,
      <<ActionsNode(Some(S_blank), <<>>)>>,
      <<ActionsNode(Some(S_script), <<>>)>>,
      <<ActionsNode(Some(S_blank), <<SetNode>>)>>,
      <<ActionsNode(None, <<SetNode>>)>>,
      <<ActionsNode(Some(S_blank), <<>>), ActionsNode(Some(S_script), <<>>)>> }

GoodService ==
    ServiceNode(Some(S_create), Some(S_Order), None, Some(S_admin),
                <<ActionsNode(Some(S_script), <<>>)>>)

ShallowServices ==
    {ServiceNode(v, n, None, r, c) :
        v \in {Some(S_create), Some(S_Create)}, n \in {None, Some(S_Order)},
        r \in {None, Some(S_admin)},
        c \in {<<>>, <<ActionsNode(Some(S_script), <<>>)>>}}
    \cup {[tag |-> "entity"]}

InitService ==
    /\ \/ \E v \in Verbs, n \in Nouns, a \in {None, Some(S_true), Some(S_false)},
             r \in {None, Some(S_admin)} :
             \E ip \in InParameterParts, ap \in ActionsParts :
                xml_file = Parsed(RootNode("services", {SERVICE_XSD},
                                           <<ServiceNode(v, n, a, r, ip \o ap)>>))
       \/ \E t \in RootTags, a \in {{}, {SERVICE_XSD}} :
             \E c \in SeqUpTo(ShallowServices, MaxServices) :
                xml_file = Parsed(RootNode(t, a, c))
       \/ xml_file = Unparseable
    /\ issues = <<>> /\ suggestions = <<>> /\ pc = "ready"
    /\ dialect = "service"
    /\ InitIdleBatch

CheckService ==
    /\ pc = "ready" /\ dialect = "service"
    /\ issues' = check_service_patterns(xml_file).issues
    /\ suggestions' = check_service_patterns(xml_file).suggestions
    /\ pc' = "done"
    /\ UNCHANGED format_vars
    /\ UNCHANGED <<xml_file, fs, dialect, bpc, todo, all_valid, verdicts, checked, success, argv>>

\* The pattern checks of both scripts, each on its own inputs
InitCheck == InitEntity \/ InitService

NextCheck == CheckEntity \/ CheckService

SpecCheck == InitCheck /\ [][NextCheck]_vars

\* A second call of the same check on the same file: the lists are created
\* anew by the call ("issues = []", "suggestions = []")
CheckAgain ==
    /\ pc = "done"
    /\ issues' = (IF dialect = "entity" THEN check_entity_patterns(xml_file)
                  ELSE check_service_patterns(xml_file)).issues
    /\ suggestions' = (IF dialect = "entity" THEN check_entity_patterns(xml_file)
                       ELSE check_service_patterns(xml_file)).suggestions
    /\ pc' = "again"
    /\ UNCHANGED format_vars
    /\ UNCHANGED <<xml_file, fs, dialect, bpc, todo, all_valid, verdicts, checked, success, argv>>

\* entities and services with several findings each, to be put side by side
OrderEntities ==
    { EntityNode(None, None, <<>>),
      EntityNode(Some(S_Order), Some(S_pkg), <<GoodField, BadRel>>),
      EntityNode(Some(S_order_dash_item), Some(S_pkg),
                 <<FieldNode(Some(S_dueDate), Some(S_widget_blob), Some(S_true))>>),
      EntityNode(Some(S_Order), None,
                 <<FieldNode(None, None, None), FieldNode(Some(S_id), None, Some(S_true))>>),
      [tag |-> "view-entity"] }
OrderServices ==
    { ServiceNode(Some(S_Create), Some(S_order), None, None,
                  <<InParametersNode(<<ParameterNode(None, None, None)>>)>>),
      ServiceNode(None, Some(S_Order), None, None,
                  <<InParametersNode(<<ParameterNode(Some(S_orderId), None, None)>>),
                    ActionsNode(Some(S_blank), <<SetNode>>)>>),
      GoodService,
      [tag |-> "entity"] }

InitOrder ==
    /\ \/ \E t \in RootTags, a \in {{}, {ENTITY_XSD}} :
             \E c \in SeqUpTo(OrderEntities, MaxEntities) :
                xml_file = Parsed(RootNode(t, a, c)) /\ dialect = "entity"
       \/ \E t \in RootTags, a \in {{}, {SERVICE_XSD}} :
             \E c \in SeqUpTo(OrderServices, MaxServices) :
                xml_file = Parsed(RootNode(t, a, c)) /\ dialect = "service"
       \/ xml_file = Unparseable /\ dialect \in {"entity", "service"}
    /\ issues = <<>> /\ suggestions = <<>> /\ pc = "ready"
    /\ InitIdleBatch

NextOrder == CheckEntity \/ CheckService \/ CheckAgain

\* The pattern checks, each file checked twice
SpecOrder == InitOrder /\ [][NextOrder]_vars

----------------------------------------------------------------------------
(* The relationship rules of validate_entity.py on one entity               *)

MaxRels == 1        \* relationship children of the entity
MaxKeyMaps == 2     \* key-map children of a relationship

S_ord == <<"o","r","d">>
RelTypes == {None, Some(S_empty), Some(S_one), Some(S_widget_blob)}
KeyMaps == {KeyMapNode(None), KeyMapNode(Some(S_orderId))}
Relationships ==
    {RelationshipNode(t, r, a, k) :
        t \in RelTypes, r \in {None, Some(S_Order)}, a \in {None, Some(S_ord)},
        k \in SeqUpTo(KeyMaps, MaxKeyMaps)}

InitRel ==
    /\ \E rs \in SeqUpTo(Relationships, MaxRels) :
          xml_file = DeepDoc(EntityNode(Some(S_Order), Some(S_pkg), <<GoodField>> \o rs))
    /\ issues = <<>> /\ suggestions = <<>> /\ pc = "ready"
    /\ dialect = "entity"
    /\ InitIdleBatch

SpecRel == InitRel /\ [][CheckEntity]_vars

----------------------------------------------------------------------------
(* validate_entity_file / validate_service_file / validate_directory / main *)

MaxFiles == 3       \* files in the directory

\* A file: its name ends in .xml or not, it can be opened or not, the markers
\* found in its first 1000 characters, and what ET.parse makes of it.
File(suffix_xml, readable, head, content) ==
    [suffix_xml |-> suffix_xml, readable |-> readable, head |-> head, content |-> content]

\* check_*_patterns of the script that is running
check_patterns(d, content) ==
    IF d = "entity" THEN check_entity_patterns(content) ELSE check_service_patterns(content)

\* validate_*_file as it would be if suggestions failed a file too
validate_file_strict(d, file) ==
    IF ~file.readable \/ ~file.content.parse_ok
    THEN [ok |-> FALSE, checked |-> FALSE]
    ELSE [ok |-> /\ Len(check_patterns(d, file.content).issues) = 0
                 /\ Len(check_patterns(d, file.content).suggestions) = 0,
          checked |-> TRUE]

\* validate_entity_file / validate_service_file: ET.parse raises for a file
\* that cannot be opened or parsed (return False, no pattern check); otherwise
\* the patterns are checked and the result is len(issues) == 0.
validate_file(d, file) ==
    IF ~file.readable \/ ~file.content.parse_ok
    THEN [ok |-> FALSE, checked |-> FALSE]
    ELSE [ok |-> Len(check_patterns(d, file.content).issues) = 0, checked |-> TRUE]

\* the quick check of validate_directory: '<entity' / '<service' in content
marker(d) == IF d = "entity" THEN "<entity" ELSE "<service"

\* entity_files / service_files: indexes of the files the walk keeps, in walk order
candidate_files(d, files) ==
    SelectSeq([i \in DOMAIN files |-> i],
              LAMBDA i : /\ files[i].suffix_xml
                         /\ files[i].readable
                         /\ marker(d) \in files[i].head)

CleanEntities ==
    Parsed(RootNode("entities", {ENTITY_XSD},
                    <<EntityNode(Some(S_Order), Some(S_pkg), <<GoodField>>)>>))
SuggestionEntities ==
    Parsed(RootNode("entities", {},
                    <<EntityNode(Some(S_Order), Some(S_pkg), <<GoodField>>)>>))
IssueEntities ==
    Parsed(RootNode("entities", {ENTITY_XSD},
                    <<EntityNode(Some(S_Order), None, <<GoodField>>)>>))
CleanServices == Parsed(RootNode("services", {SERVICE_XSD}, <<GoodService>>))
SuggestionServices == Parsed(RootNode("services", {}, <<GoodService>>))
IssueServices ==
    Parsed(RootNode("services", {SERVICE_XSD},
                    <<ServiceNode(Some(S_create), Some(S_Order), None, Some(S_admin), <<>>)>>))

DirFiles ==
    { File(TRUE, TRUE, {"<entity"}, CleanEntities),
      File(TRUE, TRUE, {"<entity"}, SuggestionEntities),
      File(TRUE, TRUE, {"<entity"}, IssueEntities),
      File(TRUE, TRUE, {"<service"}, CleanServices),
      File(TRUE, TRUE, {"<service"}, SuggestionServices),
      File(TRUE, TRUE, {"<service"}, IssueServices),
      File(TRUE, TRUE, {"<entity", "<service"}, Unparseable),
      File(FALSE, TRUE, {"<entity", "<service"}, CleanEntities),
      File(TRUE, FALSE, {"<entity", "<service"}, CleanServices) }

InitBatch ==
    /\ fs \in SeqUpTo(DirFiles, MaxFiles)
    /\ dialect = "entity" /\ bpc = "idle" /\ todo = <<>>
    /\ all_valid = TRUE /\ verdicts = <<>> /\ checked = <<>> /\ success = None
    /\ argv = [directory |-> FALSE, file |-> 0]
    /\ xml_file = Unparseable /\ issues = <<>> /\ suggestions = <<>> /\ pc = "off"
    /\ InitIdleFormat

\* single-file mode as it would be if the validator wrote its reading back:
\* the file ends up holding an empty document
MainFileRewrite ==
    /\ bpc = "idle"
    /\ \E d \in {"entity", "service"}, i \in DOMAIN fs :
          /\ dialect' = d
          /\ argv' = [directory |-> FALSE, file |-> i]
          /\ success' = Some(validate_file(d, fs[i]).ok)
          /\ verdicts' = <<[file |-> i, ok |-> validate_file(d, fs[i]).ok]>>
          /\ checked' = IF validate_file(d, fs[i]).checked THEN <<i>> ELSE <<>>
          /\ fs' = [fs EXCEPT ![i].content = Unparseable]
    /\ bpc' = "exit"
    /\ UNCHANGED format_vars
    /\ UNCHANGED <<todo, all_valid, xml_file, issues, suggestions, pc>>

\* main, single-file mode: success = validate_*_file(file_path)
MainFile ==
    /\ bpc = "idle"
    /\ \E d \in {"entity", "service"}, i \in DOMAIN fs :
          /\ dialect' = d
          /\ argv' = [directory |-> FALSE, file |-> i]
          /\ success' = Some(validate_file(d, fs[i]).ok)
          /\ verdicts' = <<[file |-> i, ok |-> validate_file(d, fs[i]).ok]>>
          /\ checked' = IF validate_file(d, fs[i]).checked THEN <<i>> ELSE <<>>
    /\ bpc' = "exit"
    /\ UNCHANGED format_vars
    /\ UNCHANGED <<fs, todo, all_valid, xml_file, issues, suggestions, pc>>

\* main, --directory mode: validate_directory up to the start of its loop
MainDirectory ==
    /\ bpc = "idle"
    /\ \E d \in {"entity", "service"} :
          /\ dialect' = d
          /\ argv' = [directory |-> TRUE, file |-> 0]
          /\ todo' = candidate_files(d, fs)
          /\ IF candidate_files(d, fs) = <<>>
             THEN success' = Some(FALSE) /\ bpc' = "exit"
             ELSE success' = None /\ bpc' = "loop"
    /\ all_valid' = TRUE /\ verdicts' = <<>> /\ checked' = <<>>
    /\ UNCHANGED format_vars
    /\ UNCHANGED <<fs, xml_file, issues, suggestions, pc>>

\* the loop as it would be if a failing file ended it ("break")
LoopStepBreak ==
    /\ bpc = "loop" /\ todo # <<>>
    /\ LET i == Head(todo)
           r == validate_file(dialect, fs[i])
       IN  /\ all_valid' = (IF ~r.ok THEN FALSE ELSE all_valid)
           /\ verdicts' = Append(verdicts, [file |-> i, ok |-> r.ok])
           /\ checked' = IF r.checked THEN Append(checked, i) ELSE checked
           /\ todo' = IF r.ok THEN Tail(todo) ELSE <<>>
    /\ UNCHANGED format_vars
    /\ UNCHANGED <<fs, dialect, bpc, success, argv, xml_file, issues, suggestions, pc>>

\* one iteration of "for entity_file in entity_files"
LoopStep ==
    /\ bpc = "loop" /\ todo # <<>>
    /\ LET i == Head(todo)
           r == validate_file(dialect, fs[i])
       IN  /\ all_valid' = (IF ~r.ok THEN FALSE ELSE all_valid)
           /\ verdicts' = Append(verdicts, [file |-> i, ok |-> r.ok])
           /\ checked' = IF r.checked THEN Append(checked, i) ELSE checked
    /\ todo' = Tail(todo)
    /\ UNCHANGED format_vars
    /\ UNCHANGED <<fs, dialect, bpc, success, argv, xml_file, issues, suggestions, pc>>

\* "return all_valid"
LoopEnd ==
    /\ bpc = "loop" /\ todo = <<>>
    /\ success' = Some(all_valid)
    /\ bpc' = "exit"
    /\ UNCHANGED format_vars
    /\ UNCHANGED <<fs, dialect, todo, all_valid, verdicts, checked, argv,
                   xml_file, issues, suggestions, pc>>

\* sys.exit(0 if success else 1); the next invocation starts afresh
Exit ==
    /\ bpc = "exit"
    /\ bpc' = "idle" /\ todo' = <<>> /\ all_valid' = TRUE /\ verdicts' = <<>>
    /\ checked' = <<>> /\ success' = None /\ dialect' = "entity"
    /\ argv' = [directory |-> FALSE, file |-> 0]
    /\ UNCHANGED format_vars
    /\ UNCHANGED <<fs, xml_file, issues, suggestions, pc>>

NextBatch == MainFile \/ MainDirectory \/ LoopStep \/ LoopEnd \/ Exit

SpecBatch == InitBatch /\ [][NextBatch]_vars

----------------------------------------------------------------------------
(* format_moqui_xml.py: format_xml_file                                     *)
(* The text of a file is a sequence of lines, each ending in a newline; a   *)
(* line is its indentation and one token: the XML declaration, the start    *)
(* tag of an element, its end tag, an empty-element tag, or nothing.        *)

MaxChildren == 2    \* children of the root element of the formatter's file
MaxCalls == 2       \* calls of format_xml_file on the file

INDENT == 4         \* toprettyxml(indent="    ")

Line(indent, kind, tag) == [indent |-> indent, kind |-> kind, tag |-> tag]
\* '<?xml version="1.0" encoding="UTF-8"?>'
DECLARATION == Line(0, "decl", "version=1.0 encoding=UTF-8")
\* '<?xml version="1.0" ?>', the declaration toprettyxml writes
MINIDOM_DECLARATION == Line(0, "decl", "version=1.0")
BlankLine == Line(0, "blank", "")

Element(tag, children) == [tag |-> tag, children |-> children]
ParseError == [parse_ok |-> FALSE, root |-> Element("", <<>>)]

\* the open elements after one more child is put into the innermost of them
Attach(stack, node) ==
    [stack EXCEPT ![Len(stack)].children = Append(@, node)]

\* The element structure of the lines after the declaration: stack holds the
\* elements still open, root the finished document element if there is one
RECURSIVE Build(_, _, _)
Build(lines, stack, root) ==
    IF lines = <<>>
    THEN IF stack = <<>> /\ root # None
         THEN [parse_ok |-> TRUE, root |-> root[1]] ELSE ParseError
    ELSE LET l == Head(lines)
             rest == Tail(lines)
         IN  CASE l.kind = "blank" -> Build(rest, stack, root)
               [] l.kind = "decl" -> ParseError
               [] l.kind = "open" ->
                    IF root # None THEN ParseError
                    ELSE Build(rest, Append(stack, Element(l.tag, <<>>)), root)
               [] l.kind = "empty" ->
                    IF root # None THEN ParseError
                    ELSE IF stack = <<>>
                         THEN Build(rest, stack, Some(Element(l.tag, <<>>)))
                         ELSE Build(rest, Attach(stack, Element(l.tag, <<>>)), root)
               [] l.kind = "close" ->
                    IF stack = <<>> \/ stack[Len(stack)].tag # l.tag THEN ParseError
                    ELSE IF Len(stack) = 1
                         THEN Build(rest, <<>>, Some(stack[1]))
                         ELSE Build(rest,
                                    Attach(SubSeq(stack, 1, Len(stack) - 1),
                                           stack[Len(stack)]),
                                    root)

\* ET.parse(file_path): a declaration is allowed as the very first line only
ET_parse(content) ==
    IF content # <<>> /\ Head(content).kind = "decl" /\ Head(content).indent = 0
    THEN Build(Tail(content), <<>>, None)
    ELSE Build(content, <<>>, None)

\* the lines toprettyxml writes for one element at a depth
RECURSIVE writexml(_, _)
writexml(node, depth) ==
    IF node.children = <<>>
    THEN << Line(depth * INDENT, "empty", node.tag) >>
    ELSE << Line(depth * INDENT, "open", node.tag) >>
         \o FlatMap(LAMBDA c : writexml(c, depth + 1), node.children)
         \o << Line(depth * INDENT, "close", node.tag) >>

\* minidom.parseString(ET.tostring(root)).toprettyxml(indent="    ") split
\* into lines: the declaration, the document, and the empty piece after the
\* last newline
pretty_xml(root) == << MINIDOM_DECLARATION >> \o writexml(root, 0) \o << BlankLine >>

\* re.sub(r'<\?xml[^>]*\?>\s*', '', pretty_xml)
remove_declaration(lines) == SelectSeq(lines, LAMBDA l : l.kind # "decl")

\* [line for line in lines if line.strip()]
remove_empty_lines(lines) == SelectSeq(lines, LAMBDA l : l.kind # "blank")

\* formatted_lines: the declaration, then "for i, line in enumerate(lines)"
\* with "if i == 0: continue", so every line but the first
formatted_lines(lines) == << DECLARATION >> \o SubSeq(lines, 2, Len(lines))

\* formatted_content for a parsed root
format_content(root) ==
    formatted_lines(remove_empty_lines(remove_declaration(pretty_xml(root))))

\* Files to format
RootNames == {"entities", "services"}
Units == { Element("entity", <<>>),
           Element("entity", << Element("field", <<>>) >>),
           Element("service", <<>>) }
Flat(lines) == [i \in DOMAIN lines |-> [lines[i] EXCEPT !.indent = 0]]
\* some ways a document is written, and two ways it is cut short
Texts(root) ==
    { << DECLARATION >> \o writexml(root, 0),
      << MINIDOM_DECLARATION >> \o writexml(root, 0),
      writexml(root, 0),
      << DECLARATION, BlankLine >> \o Flat(writexml(root, 0)),
      << DECLARATION >> \o SubSeq(writexml(root, 0), 1, Len(writexml(root, 0)) - 1),
      << DECLARATION >> \o Tail(writexml(root, 0)) }
StaleBackup == << Line(0, "empty", "old") >>

InitFormat ==
    /\ \E t \in RootNames :
          \E c \in SeqUpTo(Units, MaxChildren) :
             \E text \in Texts(Element(t, c)) :
                \E b \in {None, Some(StaleBackup)}, locked \in BOOLEAN :
                    /\ disk = [file |-> text, backup |-> b, backup_locked |-> locked]
                    /\ given = text
    /\ argv \in {[backup |-> TRUE], [backup |-> FALSE]}
    /\ fpc = "idle" /\ calls = 0 /\ success = None
    /\ original_content = <<>> /\ formatted_content = <<>>
    /\ xml_file = Unparseable /\ issues = <<>> /\ suggestions = <<>> /\ pc = "off"
    /\ dialect = "format" /\ fs = <<>> /\ bpc = "off" /\ todo = <<>>
    /\ all_valid = TRUE /\ verdicts = <<>> /\ checked = <<>>

\* format_xml_file as it would be if it never made a backup
FormatCallNoBackup ==
    /\ fpc \in {"idle", "returned"} /\ calls < MaxCalls
    /\ calls' = calls + 1
    /\ original_content' = disk.file
    /\ LET tree == ET_parse(disk.file)
       IN  IF ~tree.parse_ok
           THEN /\ formatted_content' = formatted_content
                /\ success' = Some(FALSE) /\ fpc' = "returned"
           ELSE /\ formatted_content' = format_content(tree.root)
                /\ IF disk.file = format_content(tree.root)
                   THEN success' = Some(TRUE) /\ fpc' = "returned"
                   ELSE success' = None /\ fpc' = "write"
    /\ UNCHANGED <<disk, given, argv>>
    /\ UNCHANGED <<xml_file, issues, suggestions, pc, fs, dialect, bpc, todo,
                   all_valid, verdicts, checked>>

\* format_xml_file up to its first write: read, parse, pretty-print, compare
FormatCall ==
    /\ fpc \in {"idle", "returned"} /\ calls < MaxCalls
    /\ calls' = calls + 1
    /\ original_content' = disk.file
    /\ LET tree == ET_parse(disk.file)
       IN  IF ~tree.parse_ok
           THEN /\ formatted_content' = formatted_content
                /\ success' = Some(FALSE) /\ fpc' = "returned"
           ELSE /\ formatted_content' = format_content(tree.root)
                /\ IF disk.file = format_content(tree.root)
                   THEN success' = Some(TRUE) /\ fpc' = "returned"
                   ELSE /\ success' = None
                        /\ fpc' = IF argv.backup THEN "backup" ELSE "write"
    /\ UNCHANGED <<disk, given, argv>>
    /\ UNCHANGED <<xml_file, issues, suggestions, pc, fs, dialect, bpc, todo,
                   all_valid, verdicts, checked>>

\* "if backup:" the backup is written; a failure to open it ends the call
WriteBackup ==
    /\ fpc = "backup"
    /\ IF disk.backup_locked
       THEN /\ success' = Some(FALSE) /\ fpc' = "returned" /\ disk' = disk
       ELSE /\ disk' = [disk EXCEPT !.backup = Some(original_content)]
            /\ fpc' = "write" /\ success' = success
    /\ UNCHANGED <<original_content, formatted_content, calls, given, argv>>
    /\ UNCHANGED <<xml_file, issues, suggestions, pc, fs, dialect, bpc, todo,
                   all_valid, verdicts, checked>>

\* "# Write formatted content" and return True
WriteFile ==
    /\ fpc = "write"
    /\ disk' = [disk EXCEPT !.file = formatted_content]
    /\ success' = Some(TRUE) /\ fpc' = "returned"
    /\ UNCHANGED <<original_content, formatted_content, calls, given, argv>>
    /\ UNCHANGED <<xml_file, issues, suggestions, pc, fs, dialect, bpc, todo,
                   all_valid, verdicts, checked>>

NextFormat == FormatCall \/ WriteBackup \/ WriteFile

SpecFormat == InitFormat /\ [][NextFormat]_vars

----------------------------------------------------------------------------
(* generate_service.py: the templates, as the element trees ET.parse makes   *)
(* of the text written to "<verb><noun>.xml"                                 *)

S_description == <<"d","e","s","c","r","i","p","t","i","o","n">>
S_statusId == <<"s","t","a","t","u","s","I","d">>
\* "{{noun.lower()}}" in an f-string is the text "{noun.lower()}", which the
\* final replace('{{noun.lower()}}', ...) does not find
S_noun_TypeEnumId == <<"{","n","o","u","n",".","l","o","w","e","r","(",")","}","T","y","p","e","E","n","u","m","I","d">>
S_noun_Id == <<"{","n","o","u","n",".","l","o","w","e","r","(",")","}","I","d">>
S_orderByField == <<"o","r","d","e","r","B","y","F","i","e","l","d">>
S_pageIndex == <<"p","a","g","e","I","n","d","e","x">>
S_pageSize == <<"p","a","g","e","S","i","z","e">>
S_inputParameter == <<"i","n","p","u","t","P","a","r","a","m","e","t","e","r">>
S_text_medium == <<"t","e","x","t","-","m","e","d","i","u","m">>
S_Integer == <<"I","n","t","e","g","e","r">>
S_process == <<"p","r","o","c","e","s","s">>
S_Product == <<"P","r","o","d","u","c","t">>
\* the text between "<actions>" and its first child element: a newline and
\* the indentation of the child
S_actions_text == <<"\n">> \o [i \in 1..12 |-> " "]

Leaf(tag) == [tag |-> tag]

\* the document every template wraps around its service
generated_services(service) == Parsed(RootNode("services", {SERVICE_XSD}, <<service>>))

generate_create_service(verb, noun) ==
    generated_services(ServiceNode(Some(verb), Some(noun), Some(S_true), None,
        << Leaf("description"), Leaf("implements"),
           InParametersNode(<< ParameterNode(Some(S_description), Some(S_text_medium), Some(S_true)),
                               ParameterNode(Some(S_statusId), Some(S_id), None),
                               ParameterNode(Some(S_noun_TypeEnumId), Some(S_id), None) >>),
           Leaf("out-parameters"),
           ActionsNode(Some(S_actions_text), << Leaf("entity-create"), SetNode >>) >>))

generate_update_service(verb, noun) ==
    generated_services(ServiceNode(Some(verb), Some(noun), Some(S_true), None,
        << Leaf("description"), Leaf("implements"),
           InParametersNode(<< ParameterNode(Some(S_noun_Id), Some(S_id), Some(S_true)),
                               ParameterNode(Some(S_description), Some(S_text_medium), None),
                               ParameterNode(Some(S_statusId), Some(S_id), None),
                               ParameterNode(Some(S_noun_TypeEnumId), Some(S_id), None) >>),
           Leaf("out-parameters"),
           ActionsNode(Some(S_actions_text),
                       << Leaf("entity-find-one"), Leaf("if"), Leaf("entity-update") >>) >>))

generate_find_service(verb, noun) ==
    generated_services(ServiceNode(Some(verb), Some(noun), Some(S_true), None,
        << Leaf("description"),
           InParametersNode(<< ParameterNode(Some(S_noun_TypeEnumId), None, None),
                               ParameterNode(Some(S_statusId), None, None),
                               ParameterNode(Some(S_orderByField), None, None),
                               ParameterNode(Some(S_pageIndex), Some(S_Integer), None),
                               ParameterNode(Some(S_pageSize), Some(S_Integer), None) >>),
           Leaf("out-parameters"),
           ActionsNode(Some(S_actions_text), << Leaf("entity-find"), Leaf("if") >>) >>))

generate_get_service(verb, noun) ==
    generated_services(ServiceNode(Some(verb), Some(noun), Some(S_true), None,
        << Leaf("description"),
           InParametersNode(<< ParameterNode(Some(S_noun_Id), Some(S_id), Some(S_true)) >>),
           Leaf("out-parameters"),
           ActionsNode(Some(S_actions_text), << Leaf("entity-find-one"), Leaf("if") >>) >>))

generate_delete_service(verb, noun) ==
    generated_services(ServiceNode(Some(verb), Some(noun), Some(S_true), None,
        << Leaf("description"),
           InParametersNode(<< ParameterNode(Some(S_noun_Id), Some(S_id), Some(S_true)) >>),
           ActionsNode(Some(S_actions_text),
                       << Leaf("entity-find-one"), Leaf("if"), Leaf("entity-delete") >>) >>))

\* the comment in <actions> is dropped by the parser, the whitespace around
\* it is the text of the element
generate_custom_service(verb, noun) ==
    generated_services(ServiceNode(Some(verb), Some(noun), Some(S_true), None,
        << Leaf("description"),
           InParametersNode(<< ParameterNode(Some(S_inputParameter), Some(S_text_medium),
                                             Some(S_true)) >>),
           Leaf("out-parameters"),
           ActionsNode(Some(S_actions_text \o S_actions_text),
                       << SetNode, SetNode, SetNode, SetNode >>) >>))

ServiceTypes == {"create", "update", "find", "get", "delete", "custom"}

\* main: the "# Generate service" chain
generate(service_type, verb, noun) ==
    CASE service_type = "create" -> generate_create_service(verb, noun)
      [] service_type = "update" -> generate_update_service(verb, noun)
      [] service_type = "find"   -> generate_find_service(verb, noun)
      [] service_type = "get"    -> generate_get_service(verb, noun)
      [] service_type = "delete" -> generate_delete_service(verb, noun)
      [] OTHER                   -> generate_custom_service(verb, noun)

\* command lines of generate_service.py: --verb, --noun, --type
InitGenerate ==
    /\ \E v \in {S_empty, S_create, S_process}, n \in {S_empty, S_Order, S_Product},
          t \in ServiceTypes \cup {"", "batch"} :
          argv = [verb |-> v, noun |-> n, type |-> t]
    /\ xml_file = None /\ issues = <<>> /\ suggestions = <<>> /\ pc = "args"
    /\ dialect = "service" /\ success = None
    /\ fs = <<>> /\ bpc = "off" /\ todo = <<>>
    /\ all_valid = TRUE /\ verdicts = <<>> /\ checked = <<>>
    /\ InitIdleFormat

\* main of generate_service.py: exit(1) on a missing argument or an invalid
\* type, else the file is written; it is then what validate_service.py reads
Generate ==
    /\ pc = "args"
    /\ IF argv.verb = <<>> \/ argv.noun = <<>> \/ argv.type = ""
          \/ argv.type \notin ServiceTypes
       THEN pc' = "exit" /\ success' = Some(FALSE) /\ xml_file' = xml_file
       ELSE /\ xml_file' = generate(argv.type, argv.verb, argv.noun)
            /\ pc' = "ready" /\ success' = success
    /\ UNCHANGED format_vars
    /\ UNCHANGED <<issues, suggestions, fs, dialect, bpc, todo, all_valid, verdicts,
                   checked, argv>>

NextGenerate == Generate \/ CheckService

\* generate_service.py, then check_service_patterns on the file it wrote
SpecGenerate == InitGenerate /\ [][NextGenerate]_vars

----------------------------------------------------------------------------
(* Properties                                                               *)

\* the pattern check has run on a file that parsed
Done == pc = "done" /\ xml_file.parse_ok
Root == xml_file.root
Count(seq, x) == Cardinality({i \in DOMAIN seq : seq[i] = x})
CountRule(seq, rule) == Cardinality({i \in DOMAIN seq : seq[i].rule = rule})

ExpectedRoot == IF dialect = "entity" THEN "entities" ELSE "services"
ChildTag == IF dialect = "entity" THEN "entity" ELSE "service"
MismatchFinding ==
    Finding(IF dialect = "entity" THEN "root_should_be_entities"
                                  ELSE "root_should_be_services", <<>>)
RootLevelRules == {"add_entity_xsd", "add_service_xsd"}
WrongRoot == Done /\ Root.tag \notin {"entities", "services"}

\* C1 as stated: under a root that is neither 'entities' nor 'services' the
\* check returns the root-mismatch Issue alone and the entity / service
\* children contribute no Issue and no Suggestion.
C1_Original ==
    WrongRoot =>
        /\ issues = <<MismatchFinding>>
        /\ \A i \in DOMAIN suggestions : suggestions[i].rule \in RootLevelRules

\* C1: under a root that is neither 'entities' nor 'services' the check returns
\* the root-mismatch Issue exactly once, as the first Issue, and every other
\* rule is still evaluated: the other Issues and all the Suggestions are those
\* the same tree yields under the expected root tag.
C1_RootMismatch ==
    WrongRoot =>
        LET fixed == [xml_file EXCEPT !.root.tag = ExpectedRoot]
        IN  /\ issues = <<MismatchFinding>> \o check_patterns(dialect, fixed).issues
            /\ suggestions = check_patterns(dialect, fixed).suggestions
            /\ Count(issues, MismatchFinding) = 1

C1_Witness ==
    /\ WrongRoot
    /\ FindAll(Root.children, ChildTag) # <<>>
    /\ Len(issues) > 1
    /\ \E i \in DOMAIN suggestions : suggestions[i].rule \notin RootLevelRules

\* the directory run of the validator has returned
DirDone == bpc = "exit" /\ argv.directory
\* the files validate_directory hands to validate_*_file, in order
Cands == candidate_files(dialect, fs)
\* file i parses and the pattern check finds no Issue in it
IssueFree(i) ==
    /\ fs[i].content.parse_ok
    /\ check_patterns(dialect, fs[i].content).issues = <<>>

\* C2 as stated: for every sequence of candidate files, the empty one included,
\* the batch succeeds iff every file parsed and produced zero Issues.
C2_Original ==
    DirDone => (success = Some(TRUE) <=> \A k \in DOMAIN Cands : IssueFree(Cands[k]))

\* C2: for every non-empty sequence of candidate files the batch succeeds iff
\* every file parsed and produced zero Issues, whatever the Suggestions; with
\* no candidate file at all the batch fails.
C2_BatchVerdict ==
    DirDone =>
        /\ success \in {Some(TRUE), Some(FALSE)}
        /\ success = Some(TRUE) <=>
              /\ Cands # <<>>
              /\ \A k \in DOMAIN Cands : IssueFree(Cands[k])

C2_Witness ==
    /\ DirDone /\ success = Some(TRUE) /\ Len(Cands) >= 2
    /\ \E k \in DOMAIN Cands :
          check_patterns(dialect, fs[Cands[k]].content).suggestions # <<>>

\* C3: a candidate file that does not parse gets a failing verdict, no rule is
\* evaluated for it, it makes the batch fail, and the loop goes on: at the end
\* every candidate has its verdict, in order, the one it gets when validated
\* alone.
C3_ParseFailure ==
    (bpc \in {"loop", "exit"} /\ argv.directory) =>
        /\ \A k \in DOMAIN verdicts :
              /\ verdicts[k].file = Cands[k]
              /\ verdicts[k].ok = IssueFree(Cands[k])
              /\ ~fs[Cands[k]].content.parse_ok =>
                    /\ ~verdicts[k].ok
                    /\ \A j \in DOMAIN checked : checked[j] # Cands[k]
                    /\ ~all_valid
        /\ bpc = "exit" =>
              /\ Len(verdicts) = Len(Cands)
              /\ (\E k \in DOMAIN Cands : ~fs[Cands[k]].content.parse_ok)
                    => success = Some(FALSE)

C3_Witness ==
    /\ DirDone /\ Len(verdicts) = 3
    /\ ~fs[Cands[1]].content.parse_ok
    /\ verdicts[2].ok /\ ~verdicts[3].ok /\ fs[Cands[3]].content.parse_ok
    /\ success = Some(FALSE)

\* C4: no step of the validators changes a file or adds one: the directory
\* content stays what it was, whatever the outcome of the validation.
C4_NoMutation == [][fs' = fs]_vars

C4_Witness ==
    /\ DirDone /\ Len(verdicts) = 3
    /\ verdicts[1].ok /\ ~verdicts[2].ok /\ ~fs[Cands[3]].content.parse_ok

----------------------------------------------------------------------------
(* Properties of the entity rules                                           *)

EntityDone == Done /\ dialect = "entity"
\* the entity children of the root, in document order
Entities == SelectSeq(Root.children, LAMBDA c : c.tag = "entity")
\* the name an entity is reported under
EName(e) == IF e.entity_name = None THEN S_unnamed_entity ELSE e.entity_name[1]
NonEmpty(a) == a # None /\ a[1] # <<>>
FieldsOf(e) == SelectSeq(e.children, LAMBDA c : c.tag = "field")
\* the fields of the document: <<entity index, field index>>
FieldSites ==
    UNION {{<<i, j>> : j \in DOMAIN FieldsOf(Entities[i])} : i \in DOMAIN Entities}
FieldAt(p) == FieldsOf(Entities[p[1]])[p[2]]
FlaggedPk(f) == f.is_pk = Some(S_true)
NoPkFinding(e) == Finding("no_primary_key", <<EName(e)>>)

\* C5 as stated: the 'no primary key' Issue is emitted exactly for the entities
\* with zero field children flagged is-pk="true".
C5_Original ==
    EntityDone =>
        SelectSeq(issues, LAMBDA f : f.rule = "no_primary_key")
        = FlatMap(LAMBDA e :
                    IF \A j \in DOMAIN FieldsOf(e) : ~FlaggedPk(FieldsOf(e)[j])
                    THEN <<NoPkFinding(e)>> ELSE <<>>,
                  Entities)

\* C5: the 'no primary key' Issue, carrying the entity's name, is emitted
\* exactly for the entities with zero field children that have a non-empty name
\* and is-pk="true" (a flagged field without a name does not count).
C5_PrimaryKey ==
    EntityDone =>
        SelectSeq(issues, LAMBDA f : f.rule = "no_primary_key")
        = FlatMap(LAMBDA e :
                    IF \A j \in DOMAIN FieldsOf(e) :
                          ~(FlaggedPk(FieldsOf(e)[j]) /\ NonEmpty(FieldsOf(e)[j].name))
                    THEN <<NoPkFinding(e)>> ELSE <<>>,
                  Entities)

C5_Witness ==
    /\ EntityDone
    /\ \E i \in DOMAIN Entities :
          /\ Entities[i].entity_name = Some(S_Order)
          /\ Len(FieldsOf(Entities[i])) = 2
          /\ \A j \in DOMAIN FieldsOf(Entities[i]) :
                ~FlaggedPk(FieldsOf(Entities[i])[j])
    /\ Count(issues, Finding("no_primary_key", <<S_Order>>)) = 1

\* the named primary-key fields called n in the entities reported as E
PkSites(E, n) ==
    {p \in FieldSites : /\ EName(Entities[p[1]]) = E
                        /\ FieldAt(p).name = Some(n)
                        /\ FlaggedPk(FieldAt(p))}

\* C6: in an entity named E, a named is-pk field called lowercase(E) + "Id"
\* gets no primary-key naming Suggestion, and one called otherwise gets exactly
\* one, proposing lowercase(E) + "Id" ('Order': 'orderId' none, 'id' one
\* proposing 'orderId').
C6_PkNaming ==
    EntityDone =>
        \A p \in FieldSites :
            (/\ Entities[p[1]].entity_name # None
             /\ NonEmpty(FieldAt(p).name)
             /\ FlaggedPk(FieldAt(p))) =>
                LET E == Entities[p[1]].entity_name[1]
                    n == FieldAt(p).name[1]
                    proposal == [i \in DOMAIN E |->
                                    IF E[i] \in UpperSet THEN LowerChar(E[i]) ELSE E[i]]
                                \o <<"I", "d">>
                    about == {k \in DOMAIN suggestions :
                                /\ suggestions[k].rule = "pk_name"
                                /\ suggestions[k].args[1] = E
                                /\ suggestions[k].args[2] = n}
                IN  /\ E = S_Order => proposal = S_orderId
                    /\ n = proposal => about = {}
                    /\ n # proposal =>
                          /\ Cardinality(about) = Cardinality(PkSites(E, n))
                          /\ \A k \in about : suggestions[k].args[3] = proposal

C6_Witness ==
    /\ EntityDone
    /\ Len(Entities) = 1 /\ Entities[1].entity_name = Some(S_Order)
    /\ Len(FieldsOf(Entities[1])) = 2
    /\ FieldsOf(Entities[1])[1].name = Some(S_orderId)
    /\ FlaggedPk(FieldsOf(Entities[1])[1])
    /\ FieldsOf(Entities[1])[2].name = Some(S_id)
    /\ FlaggedPk(FieldsOf(Entities[1])[2])
    /\ SelectSeq(suggestions, LAMBDA f : f.rule = "pk_name")
         = << Finding("pk_name", <<S_Order, S_id, S_orderId>>) >>

FieldIssueRules == {"field_missing_name", "field_missing_type"}
FieldSuggestionRules == {"unknown_type", "pk_name", "id_suffix", "date_suffix"}

\* C7 as stated: a named field whose type is present and not recognized
\* produces exactly one Suggestion and zero Issues (read on a document with one
\* entity holding one field, where every field-level finding is that field's,
\* and with "present" taken as present and non-empty).
C7_Original ==
    (/\ EntityDone /\ Len(Entities) = 1 /\ Len(FieldsOf(Entities[1])) = 1
     /\ NonEmpty(FieldsOf(Entities[1])[1].name)
     /\ NonEmpty(FieldsOf(Entities[1])[1].type)
     /\ FieldsOf(Entities[1])[1].type[1] \notin VALID_FIELD_TYPES) =>
        /\ Cardinality({k \in DOMAIN suggestions :
                            suggestions[k].rule \in FieldSuggestionRules}) = 1
        /\ \A k \in DOMAIN issues : issues[k].rule \notin FieldIssueRules

\* the named fields called n, of type t, in the entities reported as E
TypeSites(E, n, t) ==
    {p \in FieldSites : /\ EName(Entities[p[1]]) = E
                        /\ FieldAt(p).name = Some(n)
                        /\ FieldAt(p).type = t}

\* C7: for a named field whose type is present, non-empty and not recognized,
\* the type rule yields exactly one unknown-type Suggestion naming the entity,
\* the field and the type, and no Issue: the only Issues naming the field are
\* those of its namesakes with a missing type.  (The other field rules may add
\* Suggestions of their own.)
C7_UnknownType ==
    EntityDone =>
        \A p \in FieldSites :
            (/\ NonEmpty(FieldAt(p).name)
             /\ NonEmpty(FieldAt(p).type)
             /\ FieldAt(p).type[1] \notin VALID_FIELD_TYPES) =>
                LET E == EName(Entities[p[1]])
                    n == FieldAt(p).name[1]
                    t == FieldAt(p).type
                IN  /\ Count(suggestions, Finding("unknown_type", <<E, n, t[1]>>))
                         = Cardinality(TypeSites(E, n, t))
                    /\ Cardinality({k \in DOMAIN issues :
                                       /\ issues[k].rule \in FieldIssueRules
                                       /\ Len(issues[k].args) = 2
                                       /\ issues[k].args = <<E, n>>})
                         = Cardinality(TypeSites(E, n, None) \cup TypeSites(E, n, Some(<<>>)))

C7_Witness ==
    /\ EntityDone /\ Len(Entities) = 1
    /\ Entities[1].entity_name = Some(S_Order)
    /\ Len(FieldsOf(Entities[1])) = 1
    /\ FieldsOf(Entities[1])[1].name = Some(S_orderId)
    /\ FieldsOf(Entities[1])[1].type = Some(S_widget_blob)
    /\ Count(suggestions, Finding("unknown_type", <<S_Order, S_orderId, S_widget_blob>>)) = 1
    /\ Count(suggestions, Finding("id_suffix", <<S_Order, S_orderId>>)) = 1
    /\ \A k \in DOMAIN issues : issues[k].rule \notin FieldIssueRules

----------------------------------------------------------------------------
(* Properties of the service rules                                          *)

ServiceDone == Done /\ dialect = "service"
\* the service children of the root, in document order
Services == SelectSeq(Root.children, LAMBDA c : c.tag = "service")
ServiceSites == DOMAIN Services
HasUpper(str) == \E i \in DOMAIN str : str[i] \in UpperSet
NoCased(str) == \A i \in DOMAIN str : str[i] \notin UpperSet \cup LowerSet
BothNamed(sv) == NonEmpty(sv.verb) /\ NonEmpty(sv.noun)

\* C8 as stated: a present verb with an uppercase character yields one
\* verb-casing Issue whatever the noun, a verb without one yields none, and a
\* present noun with a non-uppercase first character yields one noun-casing
\* Suggestion whatever the verb.
C8_Original ==
    ServiceDone =>
        /\ CountRule(issues, "verb_lowercase")
             = Cardinality({i \in ServiceSites :
                   Services[i].verb # None /\ HasUpper(Services[i].verb[1])})
        /\ CountRule(suggestions, "noun_pascal_case")
             = Cardinality({i \in ServiceSites :
                   NonEmpty(Services[i].noun) /\ Services[i].noun[1][1] \notin UpperSet})

\* C8: on a service whose verb and noun are both present and non-empty the two
\* casing checks are independent: one verb-casing Issue iff the verb has an
\* uppercase character or no cased character at all (whatever the noun's
\* casing), one noun-casing Suggestion iff the noun's first character is not
\* uppercase (whatever the verb's casing).  A service lacking verb or noun gets
\* neither.
C8_Casing ==
    ServiceDone =>
        /\ CountRule(issues, "verb_lowercase")
             = Cardinality({i \in ServiceSites :
                   /\ BothNamed(Services[i])
                   /\ HasUpper(Services[i].verb[1]) \/ NoCased(Services[i].verb[1])})
        /\ CountRule(suggestions, "noun_pascal_case")
             = Cardinality({i \in ServiceSites :
                   /\ BothNamed(Services[i])
                   /\ Services[i].noun[1][1] \notin UpperSet})

C8_Witness ==
    /\ ServiceDone /\ Len(Services) = 1
    /\ Services[1].verb = Some(S_Create) /\ Services[1].noun = Some(S_order)
    /\ CountRule(issues, "verb_lowercase") = 1
    /\ CountRule(suggestions, "noun_pascal_case") = 1

ActionsOf(sv) == SelectSeq(sv.children, LAMBDA c : c.tag = "actions")
\* an actions element with no child element and no text but whitespace
Blank(a) ==
    /\ a.children = <<>>
    /\ a.text = None \/ \A i \in DOMAIN a.text[1] : a.text[1][i] \in WhiteSet

\* C9: the actions rule yields at most one Issue per service: a 'missing
\* actions' Issue exactly for the services without an actions child, an 'empty
\* actions' Issue for every service whose actions are blank, and for no service
\* without an actions child, so never both for one service.
C9_Actions ==
    ServiceDone =>
        /\ CountRule(issues, "missing_actions")
             = Cardinality({i \in ServiceSites : ActionsOf(Services[i]) = <<>>})
        /\ CountRule(issues, "empty_actions")
             >= Cardinality({i \in ServiceSites :
                    /\ ActionsOf(Services[i]) # <<>>
                    /\ \A k \in DOMAIN ActionsOf(Services[i]) :
                          Blank(ActionsOf(Services[i])[k])})
        /\ CountRule(issues, "empty_actions")
             <= Cardinality({i \in ServiceSites : ActionsOf(Services[i]) # <<>>})
        /\ Len(Services) = 1 =>
              CountRule(issues, "missing_actions") + CountRule(issues, "empty_actions") <= 1

C9_Witness ==
    /\ ServiceDone /\ Len(Services) = 1
    /\ Len(ActionsOf(Services[1])) = 1
    /\ ActionsOf(Services[1])[1].text = Some(S_blank)
    /\ ActionsOf(Services[1])[1].children = <<>>
    /\ CountRule(issues, "empty_actions") = 1
    /\ CountRule(issues, "missing_actions") = 0

\* the findings whose first value is the service's display subject
SubjectRules == {"verb_lowercase", "noun_pascal_case", "require_all_roles",
                 "parameter_missing_name", "missing_actions", "empty_actions"}
Subjects(seq) == {seq[k].args[1] : k \in {j \in DOMAIN seq : seq[j].rule \in SubjectRules}}
Hash(sv) == sv.verb[1] \o <<"#">> \o sv.noun[1]

\* C10 as stated: the subject is "verb#noun" when verb and noun are both
\* present and "unnamed service" when either is absent, with one 'missing verb
\* or noun' Issue in the latter case and none in the former.
C10_Original ==
    ServiceDone =>
        /\ CountRule(issues, "missing_verb_or_noun")
             = Cardinality({i \in ServiceSites :
                   Services[i].verb = None \/ Services[i].noun = None})
        /\ Subjects(issues) \cup Subjects(suggestions) \subseteq
             {IF Services[i].verb # None /\ Services[i].noun # None
              THEN Hash(Services[i]) ELSE S_unnamed_service : i \in ServiceSites}

\* C10: the subject is "verb#noun" when verb and noun are both present and
\* non-empty, and "unnamed service" when either is absent or empty; in the
\* latter case exactly one 'missing verb or noun' Issue is emitted (one, not
\* two, when both lack), in the former none.
C10_Subject ==
    ServiceDone =>
        /\ CountRule(issues, "missing_verb_or_noun")
             = Cardinality({i \in ServiceSites : ~BothNamed(Services[i])})
        /\ Subjects(issues) \cup Subjects(suggestions) \subseteq
             {IF BothNamed(Services[i]) THEN Hash(Services[i]) ELSE S_unnamed_service :
                 i \in ServiceSites}

C10_Witness ==
    /\ ServiceDone /\ Len(Services) = 1
    /\ Services[1].verb = None /\ Services[1].noun = None
    /\ CountRule(issues, "missing_verb_or_noun") = 1
    /\ Subjects(issues) \cup Subjects(suggestions) = {S_unnamed_service}


----------------------------------------------------------------------------
(* Properties of the field loop                                             *)

Nameless(f) == ~NonEmpty(f.name)
\* an entity without its nameless field children
WithoutNameless(e) ==
    [e EXCEPT !.children = SelectSeq(@, LAMBDA c : c.tag # "field" \/ ~Nameless(c))]
\* the document without the nameless fields of its entities
NamedOnly ==
    Parsed([Root EXCEPT !.children =
                [k \in DOMAIN @ |-> IF @[k].tag = "entity"
                                    THEN WithoutNameless(@[k]) ELSE @[k]]])
\* a sequence of findings without those of the given rules
Except(seq, rules) == SelectSeq(seq, LAMBDA f : f.rule \notin rules)
NamelessSites == {p \in FieldSites : Nameless(FieldAt(p))}

\* C11: a field child without a name yields exactly one 'field missing name'
\* Issue and nothing else: the Issues of that rule are as many as the nameless
\* fields, entity by entity, and all other findings of the document are those
\* of the same document with the nameless fields taken out (only the 'no
\* fields' Issue can differ, the nameless field being a field), so its sibling
\* fields are checked as if it were not there.
C11_NamelessField ==
    (EntityDone /\ xml_file.parse_ok) =>
        /\ \A i \in DOMAIN Entities :
              Count(issues, Finding("field_missing_name", <<EName(Entities[i])>>))
                = Cardinality({p \in NamelessSites :
                                   EName(Entities[p[1]]) = EName(Entities[i])})
        /\ CountRule(issues, "field_missing_name") = Cardinality(NamelessSites)
        /\ suggestions = check_entity_patterns(NamedOnly).suggestions
        /\ Except(issues, {"field_missing_name", "no_fields"})
             = Except(check_entity_patterns(NamedOnly).issues, {"no_fields"})

\* a nameless field flagged is-pk and lacking a type, followed by a sibling
\* with two Suggestions of its own
C11_Witness ==
    /\ EntityDone /\ Len(Entities) = 1
    /\ Entities[1].entity_name = Some(S_Order)
    /\ Len(FieldsOf(Entities[1])) = 2
    /\ FieldsOf(Entities[1])[1] = FieldNode(None, None, Some(S_true))
    /\ FieldsOf(Entities[1])[2] = FieldNode(Some(S_dueDate), Some(S_widget_blob), None)
    /\ issues = << Finding("field_missing_name", <<S_Order>>),
                   Finding("no_primary_key", <<S_Order>>) >>
    /\ Except(suggestions, RootLevelRules)
         = << Finding("unknown_type", <<S_Order, S_dueDate, S_widget_blob>>),
              Finding("date_suffix", <<S_Order, S_dueDate>>) >>


----------------------------------------------------------------------------
(* Properties of the entity naming rule                                     *)

WordSet == UpperSet \cup LowerSet \cup DigitSet \cup {"_"}
HasOtherChar(str) == \E k \in DOMAIN str : str[k] \notin WordSet
NamingFinding(n) == Finding("entity_naming", <<n>>)

\* C12 as stated: the naming-convention Suggestion is emitted exactly for the
\* entities whose entity-name contains a character other than a letter, a
\* digit or an underscore; an entity whose name has only such characters, or
\* that has no entity-name at all, gets none.
C12_Original ==
    (EntityDone /\ xml_file.parse_ok) =>
        \A i \in DOMAIN Entities :
            IF Entities[i].entity_name = None
            THEN Count(suggestions, NamingFinding(S_unnamed_entity)) = 0
            ELSE Count(suggestions, NamingFinding(Entities[i].entity_name[1]))
                   = IF HasOtherChar(Entities[i].entity_name[1])
                     THEN Cardinality({j \in DOMAIN Entities :
                              Entities[j].entity_name = Entities[i].entity_name})
                     ELSE 0


----------------------------------------------------------------------------
(* Order of the findings                                                    *)

Evaluated == pc \in {"done", "again"} /\ xml_file.parse_ok
\* the children the check of the dialect iterates over, as positions
Dispatched ==
    SelectSeq([k \in DOMAIN Root.children |-> k],
              LAMBDA k : Root.children[k].tag = ChildTag)
\* the document with one of its children only
Single(k) == Parsed([Root EXCEPT !.children = << @[k] >>])
RootIssueRules == {"root_should_be_entities", "root_should_be_services"}
OwnIssues(k) ==
    Except((IF dialect = "entity" THEN check_entity_patterns(Single(k))
            ELSE check_service_patterns(Single(k))).issues, RootIssueRules)
OwnSuggestions(k) ==
    Except((IF dialect = "entity" THEN check_entity_patterns(Single(k))
            ELSE check_service_patterns(Single(k))).suggestions, RootLevelRules)

\* the place of a rule in the rule list of its dialect: the rule group of the
\* catalog, then the place inside the group
Place(rule) ==
    CASE rule = "entity_missing_name"       -> <<1, 1>>
      [] rule = "entity_missing_package"    -> <<1, 2>>
      [] rule = "entity_naming"             -> <<2, 1>>
      [] rule = "no_fields"                 -> <<3, 1>>
      [] rule = "field_missing_name"        -> <<4, 1>>
      [] rule = "field_missing_type"        -> <<4, 2>>
      [] rule = "unknown_type"              -> <<4, 3>>
      [] rule = "pk_name"                   -> <<4, 4>>
      [] rule = "id_suffix"                 -> <<4, 5>>
      [] rule = "date_suffix"               -> <<4, 6>>
      [] rule = "no_primary_key"            -> <<5, 1>>
      [] rule = "rel_missing_type"          -> <<6, 1>>
      [] rule = "rel_type"                  -> <<6, 2>>
      [] rule = "rel_missing_related"       -> <<6, 3>>
      [] rule = "rel_short_alias"           -> <<6, 4>>
      [] rule = "rel_missing_key_map"       -> <<6, 5>>
      [] rule = "keymap_missing_field_name" -> <<6, 6>>
      [] rule = "missing_verb_or_noun"      -> <<1, 1>>
      [] rule = "verb_lowercase"            -> <<2, 1>>
      [] rule = "noun_pascal_case"          -> <<3, 1>>
      [] rule = "require_all_roles"         -> <<4, 1>>
      [] rule = "parameter_missing_name"    -> <<5, 1>>
      [] rule = "parameter_type"            -> <<5, 2>>
      [] rule = "missing_actions"           -> <<6, 1>>
      [] rule = "empty_actions"             -> <<6, 2>>
GroupOrdered(seq) ==
    \A a, b \in DOMAIN seq : a < b => Place(seq[a].rule)[1] <= Place(seq[b].rule)[1]
\* inside a group the same rule can repeat only for the key-maps of a relationship
PlaceOrdered(seq) ==
    \A a, b \in DOMAIN seq :
        (a < b /\ Place(seq[a].rule)[1] = Place(seq[b].rule)[1]) =>
            \/ Place(seq[a].rule)[2] < Place(seq[b].rule)[2]
            \/ seq[a].rule = "keymap_missing_field_name" /\ seq[b].rule = seq[a].rule
\* a child whose per-field, per-relationship or per-parameter loop runs at most once
OneOfEach(c) ==
    IF dialect = "entity"
    THEN /\ Len(FindAll(c.children, "field")) <= 1
         /\ Len(FindAll(c.children, "relationship")) <= 1
    ELSE Len(in_parameters(c)) <= 1
RulesOf(seq) == [k \in DOMAIN seq |-> seq[k].rule]

DiscoveryOrder ==
    Evaluated =>
        /\ issues = SelectSeq(issues, LAMBDA f : f.rule \in RootIssueRules)
                    \o FlatMap(OwnIssues, Dispatched)
        /\ suggestions = SelectSeq(suggestions, LAMBDA f : f.rule \in RootLevelRules)
                    \o FlatMap(OwnSuggestions, Dispatched)
        /\ \A i \in DOMAIN Dispatched :
              /\ GroupOrdered(OwnIssues(Dispatched[i]))
              /\ GroupOrdered(OwnSuggestions(Dispatched[i]))
              /\ OneOfEach(Root.children[Dispatched[i]]) =>
                    /\ PlaceOrdered(OwnIssues(Dispatched[i]))
                    /\ PlaceOrdered(OwnSuggestions(Dispatched[i]))

----------------------------------------------------------------------------
(* Properties of the suffix rules                                           *)

\* the named fields called n in the entities reported as E
NameSites(E, n) ==
    {p \in FieldSites : EName(Entities[p[1]]) = E /\ FieldAt(p).name = Some(n)}
NamedSites == {p \in FieldSites : NonEmpty(FieldAt(p).name)}
LacksDate(t) == t = None \/ ~Contains(t[1], S_date)

\* C14 as stated: for a named field, type present or absent, the 'Date'
\* Suggestion is emitted exactly when the name ends in "Date" and the type
\* does not contain "date", and the 'Id' Suggestion exactly when the name ends
\* in "Id" and the type is not exactly "id" (counted over the fields of one
\* name in the entities of one name, and read on fields whose type is absent
\* or non-empty).
C14_Original ==
    (EntityDone /\ \A p \in FieldSites : FieldAt(p).type # Some(<<>>)) =>
        \A p \in NamedSites :
            LET E == EName(Entities[p[1]])
                n == FieldAt(p).name[1]
            IN  /\ Count(suggestions, Finding("date_suffix", <<E, n>>))
                     = Cardinality({q \in NameSites(E, n) :
                           EndsWith(n, S_Date) /\ LacksDate(FieldAt(q).type)})
                /\ Count(suggestions, Finding("id_suffix", <<E, n>>))
                     = Cardinality({q \in NameSites(E, n) :
                           EndsWith(n, S_Id) /\ FieldAt(q).type # Some(S_id)})

\* C14: for a named field, the 'Date' Suggestion is emitted exactly when the
\* name ends in "Date" and the type is present, non-empty and does not contain
\* "date"; the 'Id' Suggestion exactly when the name ends in "Id" and the type
\* is not exactly "id", absent and empty types included.  Neither depends on
\* the is-pk flag: a primary-key field ending in "Id" whose type is not "id"
\* and whose name is not the expected one gets both the primary-key naming
\* Suggestion and the 'Id' Suggestion.
C14_Suffix ==
    EntityDone =>
        \A p \in NamedSites :
            LET E == EName(Entities[p[1]])
                n == FieldAt(p).name[1]
            IN  /\ Count(suggestions, Finding("date_suffix", <<E, n>>))
                     = Cardinality({q \in NameSites(E, n) :
                           /\ EndsWith(n, S_Date) /\ NonEmpty(FieldAt(q).type)
                           /\ ~Contains(FieldAt(q).type[1], S_date)})
                /\ Count(suggestions, Finding("id_suffix", <<E, n>>))
                     = Cardinality({q \in NameSites(E, n) :
                           EndsWith(n, S_Id) /\ FieldAt(q).type # Some(S_id)})
                /\ (/\ FlaggedPk(FieldAt(p)) /\ EndsWith(n, S_Id)
                    /\ FieldAt(p).type # Some(S_id)
                    /\ n # Lower(E) \o S_Id) =>
                        /\ Count(suggestions, Finding("id_suffix", <<E, n>>)) >= 1
                        /\ Count(suggestions,
                                 Finding("pk_name", <<E, n, Lower(E) \o S_Id>>)) >= 1

\* a field "dueDate" without type, which gets no 'Date' Suggestion, before a
\* primary-key field "orderId" of type "date" in an entity of another name,
\* which gets the primary-key naming Suggestion and the 'Id' Suggestion
C14_Witness ==
    /\ EntityDone /\ Len(Entities) = 1
    /\ Entities[1].entity_name = Some(S_Order2)
    /\ FieldsOf(Entities[1]) = << FieldNode(Some(S_dueDate), None, None), WrongTypePk >>
    /\ suggestions = << Finding("pk_name", <<S_Order2, S_orderId,
                                            <<"o","r","d","e","r","2","I","d">>>>),
                        Finding("id_suffix", <<S_Order2, S_orderId>>) >>
    /\ CountRule(issues, "field_missing_type") = 1


----------------------------------------------------------------------------
(* Properties of the relationship rules                                     *)

\* the relationships of the document: <<entity index, relationship index>>
RelsOf(e) == SelectSeq(e.children, LAMBDA c : c.tag = "relationship")
RelSites ==
    UNION {{<<i, j>> : j \in DOMAIN RelsOf(Entities[i])} : i \in DOMAIN Entities}
RelAt(p) == RelsOf(Entities[p[1]])[p[2]]
KeyMapsOf(r) == SelectSeq(r.children, LAMBDA c : c.tag = "key-map")
\* the key-maps of the document: <<entity index, relationship index, key-map index>>
KeyMapSites ==
    UNION {{<<p[1], p[2], j>> : j \in DOMAIN KeyMapsOf(RelAt(p))} : p \in RelSites}
KeyMapAt(q) == KeyMapsOf(RelAt(<<q[1], q[2]>>))[q[3]]
RelTypeList == {S_one, S_many, S_one_nofk}
RelIssueRules == {"rel_missing_type", "rel_missing_related", "rel_missing_key_map",
                  "keymap_missing_field_name"}
RelSuggestionRules == {"rel_type", "rel_short_alias"}
CountRules(seq, rules) == Cardinality({k \in DOMAIN seq : seq[k].rule \in rules})
Bit(b) == IF b THEN 1 ELSE 0

\* C15 as stated, on an entity with one relationship: its Issues number
\* [type missing] + [related missing] + [no key-map] + the key-maps without
\* field-name, and its Suggestions [type present and not in the list] +
\* [short-alias missing], "missing" being the absence of the attribute.
C15_Original ==
    (EntityDone /\ Cardinality(RelSites) = 1) =>
        LET r == RelAt(CHOOSE p \in RelSites : TRUE)
        IN  /\ CountRules(issues, RelIssueRules)
                 = Bit(r.type = None) + Bit(r.related = None)
                   + Bit(KeyMapsOf(r) = <<>>)
                   + Cardinality({q \in KeyMapSites : KeyMapAt(q).field_name = None})
            /\ CountRules(suggestions, RelSuggestionRules)
                 = Bit(r.type # None /\ r.type[1] \notin RelTypeList)
                   + Bit(r.short_alias = None)

\* C15: rule by rule, the relationships of a document yield one 'missing type'
\* Issue per relationship whose type is absent or empty, one 'missing related'
\* Issue per relationship whose related is absent or empty, one 'missing
\* key-map' Issue per relationship without key-map children, one 'key-map
\* missing field-name' Issue per key-map whose field-name is absent or empty,
\* one type Suggestion per relationship whose type is non-empty and not in
\* {one, many, one-nofk}, and one short-alias Suggestion per relationship whose
\* short-alias is absent or empty; the type of a relationship never yields
\* both an Issue and a Suggestion.
C15_Relationship ==
    EntityDone =>
        /\ CountRule(issues, "rel_missing_type")
             = Cardinality({p \in RelSites : ~NonEmpty(RelAt(p).type)})
        /\ CountRule(issues, "rel_missing_related")
             = Cardinality({p \in RelSites : ~NonEmpty(RelAt(p).related)})
        /\ CountRule(issues, "rel_missing_key_map")
             = Cardinality({p \in RelSites : KeyMapsOf(RelAt(p)) = <<>>})
        /\ CountRule(issues, "keymap_missing_field_name")
             = Cardinality({q \in KeyMapSites : ~NonEmpty(KeyMapAt(q).field_name)})
        /\ CountRule(suggestions, "rel_type")
             = Cardinality({p \in RelSites : /\ NonEmpty(RelAt(p).type)
                                             /\ RelAt(p).type[1] \notin RelTypeList})
        /\ CountRule(suggestions, "rel_short_alias")
             = Cardinality({p \in RelSites : ~NonEmpty(RelAt(p).short_alias)})
        /\ CountRule(issues, "rel_missing_type") + CountRule(suggestions, "rel_type")
             <= Cardinality(RelSites)

\* a relationship without type, related and short-alias, with two key-maps of
\* which one has no field-name
C15_Witness ==
    /\ EntityDone /\ Cardinality(RelSites) = 1
    /\ RelAt(<<1, 1>>) = RelationshipNode(None, None, None,
                             <<KeyMapNode(None), KeyMapNode(Some(S_orderId))>>)
    /\ issues = << Finding("rel_missing_type", <<S_Order>>),
                   Finding("rel_missing_related", <<S_Order>>),
                   Finding("keymap_missing_field_name", <<S_Order>>) >>
    /\ suggestions = << Finding("rel_short_alias", <<S_Order>>) >>


----------------------------------------------------------------------------
(* Properties of the formatter                                              *)

Returned == fpc = "returned"
WellFormed(content) == ET_parse(content).parse_ok

\* C16 as stated: after format_xml_file has returned success on a well-formed
\* file, the file is well-formed XML with the same root element and the same
\* element tree, and a second call returns success too, leaving the file and
\* the backup as the first call left them.
C16_Original ==
    /\ (Returned /\ calls = 1 /\ WellFormed(given) /\ success = Some(TRUE)) =>
          /\ WellFormed(disk.file)
          /\ ET_parse(disk.file).root = ET_parse(given).root
    /\ (/\ Returned /\ calls = 2 /\ WellFormed(given)
        /\ ~(argv.backup /\ disk.backup_locked)) =>
          /\ success = Some(TRUE)
          /\ disk.file = original_content

\* C18: with backup enabled, whenever the file differs from what it was before
\* the first call, the backup exists and holds that content; and a call that
\* returns at once, on a parse failure or on an already formatted file, writes
\* neither the file nor the backup.
C18_BackupFirst ==
    /\ []((argv.backup /\ disk.file # given) => disk.backup = Some(given))
    /\ [][(fpc \in {"idle", "returned"} /\ fpc' = "returned") => disk' = disk]_vars

\* a rewritten file next to the backup that holds what it was, after a second
\* call that failed to parse and left both as they were
C18_Witness ==
    /\ Returned /\ argv.backup /\ calls = 2
    /\ disk.file # given /\ disk.backup = Some(given)
    /\ given = << MINIDOM_DECLARATION, Line(0, "open", "entities"),
                  Line(INDENT, "empty", "entity"), Line(0, "close", "entities") >>
    /\ disk.file = << DECLARATION, Line(INDENT, "empty", "entity"),
                      Line(0, "close", "entities") >>
    /\ success = Some(FALSE)


----------------------------------------------------------------------------
(* Properties of the generator                                              *)

LowercaseVerb == argv.verb # <<>> /\ IsLower(argv.verb)
CapitalNoun == argv.noun # <<>> /\ IsUpperChar(argv.noun[1])

\* C17 as stated: for each of the six types, a lowercase verb and a noun
\* starting with an uppercase letter, the generated document checked by
\* check_service_patterns yields no Issue.
C17_Original ==
    (/\ pc = "done" /\ argv.type \in ServiceTypes
     /\ LowercaseVerb /\ CapitalNoun) => issues = <<>>

====
